---- MODULE Spec2Model ----
(***************************************************************************)
(* A model of blobimport (src/cmds/blobimport/main.rs), of the no-op       *)
(* linknode store (src/linknodes/src/lib.rs) and of the stock bookmark     *)
(* reader (src/bookmarks/stockbookmarks/src/lib.rs).                       *)
(*                                                                         *)
(* The import pipeline is modelled as three kinds of process:              *)
(*   - the main thread running main::run and run_blobimport,               *)
(*   - the converter's producers, which send BlobstoreEntry items through  *)
(*     the sync_channel (convert.rs is not part of the sources at hand;    *)
(*     its producers are modelled from the specification),                 *)
(*   - the iothread, which drains the channel through                      *)
(*     map(..).buffer_unordered(channel_size).then(..).for_each(..),       *)
(* plus the backend, which completes dispatched writes in any order.       *)
(***************************************************************************)
EXTENDS Integers, Sequences, FiniteSets, TLC

(* ------------------------------ bounds -------------------------------- *)
\* Largest channel capacity tried for --channel-size (0 is accepted by the parser).
MaxChannelSize == 2
\* Number of work items the converter may produce in one run.
MaxItems == 3
\* Number of converter worker threads that send concurrently.
NumProducers == 2
\* Largest --max-blob-size tried.
MaxBlobSize == 2

(* ------------------------------ values -------------------------------- *)
\* Option<T>: None, Some(x).
None == <<>>
Some(x) == <<x>>
\* A result not yet there, a worker with nothing to send.
Nil == [nil |-> TRUE]
Ok == [ok |-> TRUE]
Err(kind, id) == [ok |-> FALSE, kind |-> kind, id |-> id]
IsErr(r) == r # Nil /\ ~r.ok

Producers == 1..NumProducers

\* BlobstoreEntry: the two variants of a work item. A changeset carries its
\* serialized form, a manifest entry its (key, value) pair.
Changeset(id, bytes) == [type |-> "Changeset", key |-> id, val |-> bytes]
ManifestEntry(key, value) == [type |-> "ManifestEntry", key |-> key, val |-> value]

\* The work items a producer may send in the general specification. The
\* changeset's blob has the key of one of the manifest blobs: the case in which a
\* filter on keys that took changesets in would show.
Items ==
  { Changeset("k1", <<0, 0>>),
    ManifestEntry("k1", <<0>>),
    ManifestEntry("k2", <<0, 0>>) }

\* The history of the end-to-end scenario: two changesets that share one manifest
\* blob and introduce one file blob each, one changeset per worker.
History ==
  <<  << Changeset("cs1", <<0>>), ManifestEntry("m", <<0>>), ManifestEntry("f1", <<0>>) >>,
      << Changeset("cs2", <<0>>), ManifestEntry("m", <<0>>), ManifestEntry("f2", <<0>>) >>  >>

HistoryItems == UNION { {History[p][i] : i \in 1..Len(History[p])} : p \in 1..Len(History) }

Keys == {it.key : it \in Items \cup HistoryItems}

BlobstoreTypes == {"Files", "Rocksdb", "Manifold"}

VARIABLES
  (* configuration, main::run *)
  blobtype, postpone_compaction, channel_size, max_blob_size,
  (* main thread *)
  main_pc, res, result, exit_code, logged, compacted,
  (* converter *)
  pending, budget, script,
  (* sync_channel *)
  chan, sender_open, recv_open,
  (* iothread *)
  io_pc, stream_done, queue, inserted_manifest_entries,
  duplicates, failures, successes, io_res,
  (* backend *)
  store,
  (* history *)
  sent, fut, completed, observed, errlog,
  (* calls on a store taken by itself: the last call with its result, and the
     linknodes handed to add so far *)
  last_call, added,
  (* stock bookmarks: the bytes of .hg/bookmarks (None if there is no such
     file), and what StockBookmarks::read made of them *)
  file, bookmarks,
  (* the runs of blobimport on this output before the present one: for each its
     result and the store it left *)
  earlier

cfgvars == <<blobtype, postpone_compaction, channel_size, max_blob_size>>
mainvars == <<main_pc, res, result, exit_code, logged, compacted>>
convvars == <<pending, budget, script>>
chanvars == <<chan, sender_open, recv_open>>
iovars == <<io_pc, stream_done, queue, inserted_manifest_entries,
            duplicates, failures, successes, io_res>>
histvars == <<sent, fut, completed, observed, errlog>>
bmvars == <<file, bookmarks>>
libvars == <<last_call, added, bmvars, earlier>>
vars == <<libvars, cfgvars, mainvars, convvars, chanvars, iovars, store, histvars>>

(* -------------------------- LimitedBlobstore -------------------------- *)
\* A decorator that drops only what is bigger than max_blob_size.
LimitedForwardsUpToMax(max, val) == ~(Len(val) > max)

\* LimitedBlobstore::put forwards to the inner store unless val.len() >= max_blob_size.
LimitedForwards(max, val) == ~(Len(val) >= max)

\* A handle that is never wrapped: every put reaches the inner store.
PutForwardsUnwrapped(max, val) == TRUE

\* open_blobstore wraps the store only when max_blob_size is Some(..): whether a
\* put on the handle the iothread holds reaches the inner store.
PutForwards(max, val) == IF max = None THEN TRUE ELSE LimitedForwards(max[1], val)

(* ------------------------------- Init --------------------------------- *)
InitConfig ==
  /\ blobtype \in BlobstoreTypes
  /\ postpone_compaction \in BOOLEAN
  /\ channel_size \in 0..MaxChannelSize
  /\ max_blob_size \in {None} \cup {Some(n) : n \in 1..MaxBlobSize}

InitRun ==
  /\ main_pc = "open_headstore"
  /\ res = Nil /\ result = Nil /\ exit_code = None
  /\ logged = FALSE /\ compacted = FALSE
  /\ pending = [p \in Producers |-> Nil]
  /\ chan = <<>> /\ sender_open = TRUE /\ recv_open = TRUE
  /\ io_pc = "unstarted" /\ stream_done = FALSE /\ queue = {}
  /\ inserted_manifest_entries = {}
  /\ duplicates = 0 /\ failures = 0 /\ successes = 0 /\ io_res = Nil
  /\ store = [k \in Keys |-> None]
  /\ sent = <<>> /\ fut = <<>> /\ completed = <<>> /\ observed = <<>>
  /\ errlog = <<>>

InitLib ==
  /\ last_call = Nil /\ added = {} /\ file = None /\ bookmarks = Nil
  /\ earlier = <<>>

Init ==
  /\ InitConfig /\ InitRun /\ InitLib
  /\ budget = MaxItems
  /\ script = [p \in Producers |-> <<>>]

(* ---------------------------- main thread ----------------------------- *)
\* run_blobimport returns early through `?`: the sender is dropped with it.
ReturnEarly(e) ==
  /\ result' = e
  /\ main_pc' = "returned"
  /\ sender_open' = FALSE
  /\ UNCHANGED <<res, exit_code, logged, compacted>>

\* open_headstore(..)? and the spawn of the iothread.
OpenHeadstore ==
  /\ main_pc = "open_headstore"
  /\ \/ /\ main_pc' = "open_repo"
        /\ io_pc' = "open_blobstore"
        /\ UNCHANGED <<res, result, exit_code, logged, compacted, sender_open>>
     \/ /\ ReturnEarly(Err("open_headstore", 0))
        /\ UNCHANGED io_pc
  /\ UNCHANGED <<libvars, cfgvars, convvars, chan, recv_open, stream_done, queue,
                 inserted_manifest_entries, duplicates, failures, successes,
                 io_res, store, histvars>>

\* open_repo(&input)?
OpenRepo ==
  /\ main_pc = "open_repo"
  /\ \/ /\ main_pc' = "open_linknodes"
        /\ UNCHANGED <<res, result, exit_code, logged, compacted, sender_open>>
     \/ ReturnEarly(Err("open_repo", 0))
  /\ UNCHANGED <<libvars, cfgvars, convvars, chan, recv_open, iovars, store, histvars>>

\* if write_linknodes { open_linknodes_store(..)? } else { NoopLinknodes::new() }
OpenLinknodes ==
  /\ main_pc = "open_linknodes"
  /\ \E write_linknodes \in BOOLEAN :
       \/ /\ main_pc' = "convert"
          /\ UNCHANGED <<res, result, exit_code, logged, compacted, sender_open>>
       \/ /\ write_linknodes
          /\ ReturnEarly(Err("open_linknodes_store", 0))
  /\ UNCHANGED <<libvars, cfgvars, convvars, chan, recv_open, iovars, store, histvars>>

(* ----------------------------- converter ------------------------------ *)
\* A worker has converted the next object of the history and is about to send it.
ProduceAny(p) ==
  /\ main_pc = "convert"
  /\ pending[p] = Nil
  /\ budget > 0
  /\ \E item \in Items : pending' = [pending EXCEPT ![p] = item]
  /\ budget' = budget - 1
  /\ UNCHANGED <<libvars, cfgvars, mainvars, script, chanvars, iovars, store, histvars>>

\* A channel that lets one item more in than its capacity.
ChannelHasRoomOffByOne(c, size) == Len(c) <= size

\* sync_channel(channel_size): a send finds room while fewer than channel_size
\* items are buffered.
ChannelHasRoom(c, size) == Len(c) < size

\* sender.send(entry) returns once the entry is buffered.
Send(p) ==
  /\ main_pc = "convert"
  /\ pending[p] # Nil
  /\ recv_open
  /\ ChannelHasRoom(chan, channel_size)
  /\ chan' = Append(chan, pending[p])
  /\ sent' = Append(sent, pending[p])
  /\ pending' = [pending EXCEPT ![p] = Nil]
  /\ UNCHANGED <<libvars, cfgvars, mainvars, budget, script, sender_open, recv_open,
                 iovars, store, fut, completed, observed, errlog>>

\* convert(..) returns: the ConvertContext, and the sender with it, is dropped.
ConvertReturns(r) ==
  /\ res' = r
  /\ main_pc' = "join"
  /\ sender_open' = FALSE
  /\ pending' = [p \in Producers |-> Nil]
  /\ errlog' = IF IsErr(r) THEN Append(errlog, r) ELSE errlog
  /\ UNCHANGED <<libvars, cfgvars, result, exit_code, logged, compacted, budget, script,
                 chan, recv_open, iovars, store, sent, fut, completed, observed>>

\* A send on a channel whose receiver is gone fails, also one that was blocked.
SendFail(p) ==
  /\ main_pc = "convert"
  /\ pending[p] # Nil
  /\ ~recv_open
  /\ ConvertReturns(Err("send", p))

\* A conversion step fails.
ConvertFail ==
  /\ main_pc = "convert"
  /\ ConvertReturns(Err("convert", 0))

\* Every worker is through with its part of the history.
ConvertDone ==
  /\ main_pc = "convert"
  /\ \A p \in Producers : pending[p] = Nil /\ script[p] = <<>>
  /\ ConvertReturns(Ok)

\* A join that looks at the converter's result first.
RunResultConvFirst(io, conv) == IF IsErr(conv) THEN conv ELSE io

\* iothread.join().expect("failed to join io thread")?; res
RunResult(io, conv) == IF IsErr(io) THEN io ELSE conv

Join ==
  /\ main_pc = "join"
  /\ io_pc = "done"
  /\ result' = RunResult(io_res, res)
  /\ main_pc' = "returned"
  /\ UNCHANGED <<libvars, cfgvars, res, exit_code, logged, compacted, convvars, chanvars,
                 iovars, store, histvars>>

\* A compaction pass that is run for every backend.
NeedsCompactionAnyBackend(ty, postpone) == postpone

\* A compaction pass for rocksdb whether or not --postpone-compaction was given.
NeedsCompactionNoFlag(ty, postpone) == ty = "Rocksdb"

\* Whether main::run runs the compaction pass after the import.
NeedsCompaction(ty, postpone) == ty = "Rocksdb" /\ postpone

\* if let Err(e) = run(..) { error!(..); std::process::exit(1) }
ExitFailure ==
  /\ main_pc = "returned"
  /\ IsErr(result)
  /\ logged' = TRUE
  /\ exit_code' = Some(1)
  /\ main_pc' = "exited"
  /\ UNCHANGED <<libvars, cfgvars, res, result, compacted, convvars, chanvars, iovars,
                 store, histvars>>

\* rocksdb::Db::open(..).expect("can't open rocksdb"); compact_range: a failed
\* open panics, and a panic of the main thread ends the process with code 101.
Compact ==
  /\ main_pc = "returned"
  /\ result = Ok
  /\ NeedsCompaction(blobtype, postpone_compaction)
  /\ \/ /\ compacted' = TRUE
        /\ main_pc' = "run_ok"
        /\ UNCHANGED exit_code
     \/ /\ exit_code' = Some(101)
        /\ main_pc' = "exited"
        /\ UNCHANGED compacted
  /\ UNCHANGED <<libvars, cfgvars, res, result, logged, convvars, chanvars, iovars,
                 store, histvars>>

\* run returns Ok(()) and main returns.
ExitSuccess ==
  /\ \/ main_pc = "run_ok"
     \/ /\ main_pc = "returned"
        /\ result = Ok
        /\ ~NeedsCompaction(blobtype, postpone_compaction)
  /\ exit_code' = Some(0)
  /\ main_pc' = "exited"
  /\ UNCHANGED <<libvars, cfgvars, res, result, logged, compacted, convvars, chanvars,
                 iovars, store, histvars>>

(* ------------------------------ iothread ------------------------------ *)
\* The process is still there: std::process::exit and the return of main end
\* every thread.
Alive == main_pc # "exited"

\* An iothread that records its result, drops its futures and goes on receiving.
IoReturnsGoesOn(r) ==
  /\ io_res' = r
  /\ queue' = {}
  /\ errlog' = IF IsErr(r) THEN Append(errlog, r) ELSE errlog
  /\ UNCHANGED <<io_pc, recv_open, chan>>

\* The iothread's closure returns: recv, and with it whatever the channel still
\* buffers, and the stream with its unfinished futures are dropped.
IoReturns(r) ==
  /\ io_res' = r
  /\ io_pc' = "done"
  /\ recv_open' = FALSE
  /\ chan' = <<>>
  /\ queue' = {}
  /\ errlog' = IF IsErr(r) THEN Append(errlog, r) ELSE errlog

\* A context that is lost on the way.
ContextDropped(e, msg) == e

\* .context(msg): the error, wrapped with a message that names the operation.
Context(e, msg) == [ok |-> FALSE, kind |-> e.kind, id |-> e.id, context |-> msg]
HasContext(e) == "context" \in DOMAIN e

\* Fileblob::create and Rocksblob::open_with_options may fail;
\* ManifoldBlob::new_may_panic returns no error.
OpenMayFail(ty) == ty \in {"Files", "Rocksdb"}

\* open_blobstore(output, blobtype, .., max_blob_size)?
OpenBlobstore ==
  /\ Alive
  /\ io_pc = "open_blobstore"
  /\ \/ /\ io_pc' = "run"
        /\ UNCHANGED <<io_res, recv_open, chan, queue, errlog>>
     \/ /\ OpenMayFail(blobtype)
        /\ IoReturns(Context(Err("open_blobstore", 0), "Failed to open blob store"))
  /\ UNCHANGED <<libvars, cfgvars, mainvars, convvars, sender_open, stream_done,
                 inserted_manifest_entries, duplicates, failures, successes,
                 store, sent, fut, completed, observed>>

\* A fill loop that takes another item only when no future is queued.
QueueHasRoomWhenEmpty(q, size) == q = {} /\ size > 0

\* A fill loop that takes one future more than max.
QueueHasRoomOffByOne(q, size) == Cardinality(q) <= size

\* buffer_unordered(channel_size) polls the receiver stream for another item
\* only while queue.len() < max.
QueueHasRoom(q, size) == Cardinality(q) < size

\* The closure given to map: what becomes of a dequeued entry.
\*   dup: the entry was filtered as an already inserted manifest entry,
\*   put: blobstore.put was called (by the closure or by bcs.save),
\*   fwd: the put reached the backend, st: the state of the future.
\* The result of HashSet::insert read the wrong way round.
IsDuplicateInverted(item, inserted) ==
  item.type = "ManifestEntry" /\ item.key \notin inserted

\* A filter that looks at the key of every entry, changesets included.
IsDuplicateAnyType(item, inserted) == item.key \in inserted

IsDuplicate(item, inserted) ==
  item.type = "ManifestEntry" /\ item.key \in inserted

Dispatch(item, inserted, max) ==
  LET dup == IsDuplicate(item, inserted)
      fwd == ~dup /\ PutForwards(max, item.val)
  IN  [item |-> item, dup |-> dup, put |-> ~dup, fwd |-> fwd,
       st |-> IF fwd THEN "pending" ELSE "ok"]

\* One turn of the loop `while self.queue.len() < self.max` of buffer_unordered:
\* recv() returns the next entry, the map closure runs, the future is queued.
Recv ==
  /\ Alive
  /\ io_pc = "run"
  /\ ~stream_done
  /\ QueueHasRoom(queue, channel_size)
  /\ chan # <<>>
  /\ LET item == Head(chan)
         f == Dispatch(item, inserted_manifest_entries, max_blob_size)
     IN  /\ fut' = Append(fut, f)
         /\ queue' = queue \cup {Len(fut) + 1}
         /\ inserted_manifest_entries' =
              IF item.type = "ManifestEntry"
                THEN inserted_manifest_entries \cup {item.key}
                ELSE inserted_manifest_entries
         /\ duplicates' = IF f.dup THEN duplicates + 1 ELSE duplicates
  /\ chan' = Tail(chan)
  /\ UNCHANGED <<libvars, cfgvars, mainvars, convvars, sender_open, recv_open, io_pc,
                 stream_done, failures, successes, io_res, store, sent,
                 completed, observed, errlog>>

\* recv() returns Err on an empty channel whose senders are all gone: the
\* receiver stream ends.
EndOfStream ==
  /\ Alive
  /\ io_pc = "run"
  /\ ~stream_done
  /\ QueueHasRoom(queue, channel_size)
  /\ chan = <<>>
  /\ ~sender_open
  /\ stream_done' = TRUE
  /\ UNCHANGED <<libvars, cfgvars, mainvars, convvars, chanvars, io_pc, queue,
                 inserted_manifest_entries, duplicates, failures, successes,
                 io_res, store, histvars>>

\* buffer_unordered polls its queue of futures only once the fill loop is left:
\* the queue is full or the receiver stream has ended. (While neither holds the
\* iothread sits in the blocking recv().)
PollsQueue == stream_done \/ ~QueueHasRoom(queue, channel_size)

\* A then(..) that counts every result it is handed as a success.
YieldCountsSuccess(i) ==
  /\ Alive
  /\ io_pc = "run"
  /\ PollsQueue
  /\ i \in queue
  /\ fut[i].st # "pending"
  /\ observed' = Append(observed, i)
  /\ successes' = successes + 1
  /\ IF fut[i].st = "err"
       THEN /\ IoReturns(Err("put", i))
            /\ UNCHANGED failures
       ELSE /\ queue' = queue \ {i}
            /\ UNCHANGED <<failures, io_res, io_pc, recv_open, chan, errlog>>
  /\ UNCHANGED <<libvars, cfgvars, mainvars, convvars, sender_open, stream_done,
                 inserted_manifest_entries, duplicates, store, sent, fut,
                 completed>>

\* A counting stage that passes over the entries that were skipped as duplicates.
YieldSkipsDuplicates(i) ==
  /\ Alive
  /\ io_pc = "run"
  /\ PollsQueue
  /\ i \in queue
  /\ fut[i].st # "pending"
  /\ observed' = Append(observed, i)
  /\ IF fut[i].st = "err"
       THEN /\ failures' = failures + 1
            /\ IoReturns(Err("put", i))
            /\ UNCHANGED successes
       ELSE /\ successes' = IF fut[i].dup THEN successes ELSE successes + 1
            /\ queue' = queue \ {i}
            /\ UNCHANGED <<failures, io_res, io_pc, recv_open, chan, errlog>>
  /\ UNCHANGED <<libvars, cfgvars, mainvars, convvars, sender_open, stream_done,
                 inserted_manifest_entries, duplicates, store, sent, fut,
                 completed>>

\* The queue yields the result of a finished future; then(..) counts it and
\* for_each goes on, or ends the stream with the error.
Yield(i) ==
  /\ Alive
  /\ io_pc = "run"
  /\ PollsQueue
  /\ i \in queue
  /\ fut[i].st # "pending"
  /\ observed' = Append(observed, i)
  /\ IF fut[i].st = "err"
       THEN /\ failures' = failures + 1
            /\ IoReturns(Err("put", i))
            /\ UNCHANGED successes
       ELSE /\ successes' = successes + 1
            /\ queue' = queue \ {i}
            /\ UNCHANGED <<failures, io_res, io_pc, recv_open, chan, errlog>>
  /\ UNCHANGED <<libvars, cfgvars, mainvars, convvars, sender_open, stream_done,
                 inserted_manifest_entries, duplicates, store, sent, fut,
                 completed>>

\* The queue is empty and the receiver stream is done: the stream ends, for_each
\* and core.run return Ok.
Finish ==
  /\ Alive
  /\ io_pc = "run"
  /\ stream_done
  /\ queue = {}
  /\ IoReturns(Ok)
  /\ UNCHANGED <<libvars, cfgvars, mainvars, convvars, sender_open, stream_done,
                 inserted_manifest_entries, duplicates, failures, successes,
                 store, sent, fut, completed, observed>>

(* ------------------------------ backend ------------------------------- *)
\* Blobstore::put of the backend: create-or-overwrite by key.
StorePut(s, key, val) == [s EXCEPT ![key] = Some(val)]

\* Blobstore::get of the backend.
StoreGet(s, key) == s[key]

\* A dispatched write completes in the backend, with success or with an error.
Complete(i) ==
  /\ Alive
  /\ i \in 1..Len(fut)
  /\ fut[i].st = "pending"
  /\ completed' = Append(completed, i)
  /\ \/ /\ fut' = [fut EXCEPT ![i].st = "ok"]
        /\ store' = StorePut(store, fut[i].item.key, fut[i].item.val)
     \/ /\ fut' = [fut EXCEPT ![i].st = "err"]
        /\ UNCHANGED store
  /\ UNCHANGED <<libvars, cfgvars, mainvars, convvars, chanvars, iovars, sent, observed,
                 errlog>>

(* ---------------------------- specification --------------------------- *)
Next ==
  \/ OpenHeadstore \/ OpenRepo \/ OpenLinknodes
  \/ \E p \in Producers : ProduceAny(p) \/ Send(p) \/ SendFail(p)
  \/ ConvertFail \/ ConvertDone \/ Join
  \/ ExitFailure \/ Compact \/ ExitSuccess
  \/ OpenBlobstore \/ Recv \/ EndOfStream \/ Finish
  \/ \E i \in 1..MaxItems : Yield(i) \/ Complete(i)

Spec == Init /\ [][Next]_vars

(* ---------------- the fairness the threads' scheduling gives ---------- *)
\* A thread that can take its next step takes it, and a write that is in
\* flight completes.
IoStep == OpenBlobstore \/ Recv \/ EndOfStream \/ Finish \/ \E i \in 1..MaxItems : Yield(i)
BackendStep == \E i \in 1..MaxItems : Complete(i)
MainStep == Join \/ ExitFailure \/ Compact \/ ExitSuccess

FairSpec ==
  /\ Spec
  /\ WF_vars(IoStep)
  /\ WF_vars(BackendStep)
  /\ WF_vars(MainStep)

\* The converter's workers are scheduled too: a worker that can produce, send
\* or get its send refused does so, and a converter that is through returns.
ConvStep ==
  \/ \E p \in Producers : ProduceAny(p) \/ Send(p) \/ SendFail(p)
  \/ ConvertDone

FairSpecConv ==
  /\ FairSpec
  /\ WF_vars(ConvStep)

(* --------------------- the end-to-end scenario ------------------------ *)
\* A worker takes the next object of its changeset.
ProduceScript(p) ==
  /\ main_pc = "convert"
  /\ pending[p] = Nil
  /\ script[p] # <<>>
  /\ pending' = [pending EXCEPT ![p] = Head(script[p])]
  /\ script' = [script EXCEPT ![p] = Tail(script[p])]
  /\ UNCHANGED <<libvars, cfgvars, mainvars, budget, chanvars, iovars, store, histvars>>

\* --blobstore files, no --max-blob-size, the two changesets of History.
InitE2E ==
  /\ blobtype = "Files"
  /\ postpone_compaction = FALSE
  /\ channel_size \in 0..MaxChannelSize
  /\ max_blob_size = None
  /\ InitRun /\ InitLib
  /\ budget = 0
  /\ script = [p \in Producers |-> IF p <= Len(History) THEN History[p] ELSE <<>>]

NextE2E ==
  \/ OpenHeadstore \/ OpenRepo \/ OpenLinknodes
  \/ \E p \in Producers : ProduceScript(p) \/ Send(p) \/ SendFail(p)
  \/ ConvertFail \/ ConvertDone \/ Join
  \/ ExitFailure \/ ExitSuccess
  \/ OpenBlobstore \/ Recv \/ EndOfStream \/ Finish
  \/ \E i \in 1..(Len(History[1]) + Len(History[2])) : Yield(i) \/ Complete(i)

SpecE2E == InitE2E /\ [][NextE2E]_vars

(* ------------- the blobstore handle of open_blobstore ----------------- *)
\* Longest payload put on the handle.
MaxPayload == 2

RECURSIVE BytesUpTo(_)
\* The payloads of at most n bytes, of the bytes 0 and 1.
BytesUpTo(n) ==
  IF n = 0 THEN {<<>>}
  ELSE LET shorter == BytesUpTo(n - 1)
       IN  shorter \cup {Append(b, x) : b \in {c \in shorter : Len(c) = n - 1}, x \in {0, 1}}

Payloads == BytesUpTo(MaxPayload)
HandleKeys == {"k1", "k2"}

\* Blobstore::put of the backend as a call: its result, and the store after it.
InnerPut(s, key, val, inner_ok) ==
  IF inner_ok THEN [res |-> Ok, store |-> StorePut(s, key, val)]
              ELSE [res |-> Err("put", 0), store |-> s]

\* A decorator that removes the blob of a key whose put it drops.
LimitedPutClears(max, s, key, val, inner_ok) ==
  IF ~LimitedForwards(max, val)
    THEN [res |-> Ok, store |-> [s EXCEPT ![key] = None]]
    ELSE InnerPut(s, key, val, inner_ok)

\* LimitedBlobstore::put
LimitedPut(max, s, key, val, inner_ok) ==
  IF ~LimitedForwards(max, val)
    THEN [res |-> Ok, store |-> s]
    ELSE InnerPut(s, key, val, inner_ok)

\* LimitedBlobstore::get
LimitedGet(s, key) == StoreGet(s, key)

\* put and get on the handle open_blobstore returns: the LimitedBlobstore if
\* max_blob_size is Some(..), the backend itself otherwise.
HandlePut(max, s, key, val, inner_ok) ==
  IF max = None THEN InnerPut(s, key, val, inner_ok)
                ELSE LimitedPut(max[1], s, key, val, inner_ok)

HandleGet(max, s, key) ==
  IF max = None THEN StoreGet(s, key) ELSE LimitedGet(s, key)

pipevars == <<blobtype, postpone_compaction, channel_size, mainvars, convvars,
              chanvars, iovars, histvars, earlier>>

\* open_blobstore on the output of an earlier run: the blobs stay, the limit is
\* the one of this run.
Reopen(max) ==
  /\ max_blob_size' = max
  /\ last_call' = Nil
  /\ UNCHANGED <<added, bmvars, pipevars, store>>

Put(key, val, inner_ok) ==
  LET r == HandlePut(max_blob_size, store, key, val, inner_ok)
  IN  /\ store' = r.store
      /\ last_call' = [op |-> "put", key |-> key, val |-> val, res |-> r.res,
                       inner |-> IF inner_ok THEN Ok ELSE Err("put", 0),
                       before |-> StoreGet(store, key), store_before |-> store]
      /\ UNCHANGED <<added, bmvars, pipevars, max_blob_size>>

\* A get, with the call it follows.
Get(key) ==
  /\ last_call' = [op |-> "get", key |-> key,
                   res |-> HandleGet(max_blob_size, store, key),
                   after |-> IF last_call # Nil /\ last_call.op = "put"
                               THEN last_call ELSE Nil]
  /\ UNCHANGED <<added, bmvars, pipevars, max_blob_size, store>>

InitLimited ==
  /\ blobtype = "Files" /\ postpone_compaction = FALSE /\ channel_size = 1
  /\ max_blob_size \in {None} \cup {Some(n) : n \in 0..MaxBlobSize}
  /\ InitRun /\ InitLib
  /\ budget = 0
  /\ script = [p \in Producers |-> <<>>]

NextLimited ==
  \/ \E max \in {None} \cup {Some(n) : n \in 0..MaxBlobSize} : Reopen(max)
  \/ \E key \in HandleKeys, val \in Payloads, inner_ok \in BOOLEAN : Put(key, val, inner_ok)
  \/ \E key \in HandleKeys : Get(key)

SpecLimited == InitLimited /\ [][NextLimited]_vars

(* --------------------------- NoopLinknodes ---------------------------- *)
RepoPaths == {"p1", "p2"}
NodeHashes == {"n1", "n2"}

\* A store that keeps what it was given: a second, different linknode for the
\* same path and node is refused.
NoopAddKeeps(path, node, linknode) ==
  IF \E t \in added : t[1] = path /\ t[2] = node /\ t[3] # linknode
    THEN [ok |-> FALSE, kind |-> "AlreadyExists", path |-> path, node |-> node]
    ELSE Ok

\* NoopLinknodes::add
NoopAdd(path, node, linknode) == Ok

\* A not-found error that names the node of the last add.
NoopGetStale(path, node) ==
  [ok |-> FALSE, kind |-> "NotFound", path |-> path,
   node |-> IF last_call # Nil /\ last_call.op = "add" THEN last_call.node ELSE node]

\* NoopLinknodes::get
NoopGet(path, node) == [ok |-> FALSE, kind |-> "NotFound", path |-> path, node |-> node]

LinkAdd(path, node, linknode) ==
  /\ last_call' = [op |-> "add", path |-> path, node |-> node,
                   linknode |-> linknode, res |-> NoopAdd(path, node, linknode)]
  /\ added' = added \cup {<<path, node, linknode>>}
  /\ UNCHANGED <<bmvars, pipevars, max_blob_size, store>>

LinkGet(path, node) ==
  /\ last_call' = [op |-> "get", path |-> path, node |-> node,
                   res |-> NoopGet(path, node)]
  /\ UNCHANGED <<added, bmvars, pipevars, max_blob_size, store>>

InitLinknodes ==
  /\ blobtype = "Files" /\ postpone_compaction = FALSE /\ channel_size = 1
  /\ max_blob_size = None
  /\ InitRun /\ InitLib
  /\ budget = 0
  /\ script = [p \in Producers |-> <<>>]

NextLinknodes ==
  \/ \E path \in RepoPaths, node \in NodeHashes, linknode \in NodeHashes :
       LinkAdd(path, node, linknode)
  \/ \E path \in RepoPaths, node \in NodeHashes : LinkGet(path, node)

SpecLinknodes == InitLinknodes /\ [][NextLinknodes]_vars

(* ------------------- a second run on the same output ------------------ *)
\* Most runs of blobimport on one output.
MaxRuns == 2

\* The entries of the import that is run again: a changeset, its manifest blob,
\* a file blob and the manifest blob once more, all from one worker.
RerunItems ==
  << Changeset("cs1", <<0, 0>>), ManifestEntry("m", <<0>>),
     ManifestEntry("f1", <<0>>), ManifestEntry("m", <<0>>) >>

RerunScript == [p \in Producers |-> IF p = 1 THEN RerunItems ELSE <<>>]

\* A filter that outlives the run.
KeptHashSet(old) == old

\* let mut inserted_manifest_entries = std::collections::HashSet::new();
NewHashSet(old) == {}

\* blobimport is started again with the same arguments once the process of the
\* run before has ended: the blobs written so far are in the output, everything
\* else starts anew.
Rerun ==
  /\ main_pc = "exited"
  /\ Len(earlier) + 1 < MaxRuns
  /\ earlier' = Append(earlier, [result |-> result, io_res |-> io_res, store |-> store])
  /\ main_pc' = "open_headstore"
  /\ res' = Nil /\ result' = Nil /\ exit_code' = None
  /\ logged' = FALSE /\ compacted' = FALSE
  /\ pending' = [p \in Producers |-> Nil]
  /\ script' = RerunScript
  /\ chan' = <<>> /\ sender_open' = TRUE /\ recv_open' = TRUE
  /\ io_pc' = "unstarted" /\ stream_done' = FALSE /\ queue' = {}
  /\ inserted_manifest_entries' = NewHashSet(inserted_manifest_entries)
  /\ duplicates' = 0 /\ failures' = 0 /\ successes' = 0 /\ io_res' = Nil
  /\ sent' = <<>> /\ fut' = <<>> /\ completed' = <<>> /\ observed' = <<>>
  /\ errlog' = <<>>
  /\ UNCHANGED <<last_call, added, bmvars, cfgvars, budget, store>>

InitRerun ==
  /\ blobtype = "Files"
  /\ postpone_compaction = FALSE
  /\ channel_size \in 0..MaxChannelSize
  /\ max_blob_size \in {None} \cup {Some(n) : n \in 1..MaxBlobSize}
  /\ InitRun /\ InitLib
  /\ budget = 0
  /\ script = RerunScript

NextRerun ==
  \/ OpenHeadstore \/ OpenRepo \/ OpenLinknodes
  \/ \E p \in Producers : ProduceScript(p) \/ Send(p) \/ SendFail(p)
  \/ ConvertFail \/ ConvertDone \/ Join
  \/ ExitFailure \/ ExitSuccess
  \/ OpenBlobstore \/ Recv \/ EndOfStream \/ Finish
  \/ \E i \in 1..Len(RerunItems) : Yield(i) \/ Complete(i)
  \/ Rerun

SpecRerun == InitRerun /\ [][NextRerun]_vars

(* -------------------------- StockBookmarks ---------------------------- *)
\* Most lines a bookmarks file has.
MaxLines == 3

\* b' ' and b'\n'.
SP == 32
NL == 10
\* The hash is 40 bytes, the space is 1 byte, the name is at least 1 byte.
HashLen == 40
MinLineLen == 42
\* Version::from(1)
StockVersion == 1

Fill(b, n) == [i \in 1..n |-> b]
\* "1111..", "2222..", "AAAA..": three hash fields of 40 hex digits.
Ones == Fill(49, HashLen)
Twos == Fill(50, HashLen)
UpperAs == Fill(65, HashLen)
\* A field with the letter g in it, one with the byte 0xff, one of 39 digits and a space.
NonHex == [Ones EXCEPT ![7] = 103]
NonAscii == [Ones EXCEPT ![HashLen] = 255]
ShortHash == [Ones EXCEPT ![HashLen] = SP]
\* The names abc, def and abcdef.
Abc == <<97, 98, 99>>
Def == <<100, 101, 102>>
Abcdef == Abc \o Def

WellFormedLines ==
  { Ones \o <<SP>> \o Abc, Twos \o <<SP>> \o Abc, UpperAs \o <<SP>> \o Def }
MalformedLines ==
  { <<>>, Fill(49, 3), Ones, Ones \o <<SP>>, Ones \o <<97, 98>>, NonHex \o <<97, 98>> }
BadHashLines ==
  { ShortHash \o <<SP>> \o Abc, NonAscii \o <<SP>> \o Abc, NonHex \o <<SP>> \o Abc }
BookmarkLines == WellFormedLines \cup MalformedLines \cup BadHashLines

RECURSIVE JoinLines(_)
\* The bytes of a file with these lines, each followed by a newline.
JoinLines(lines) ==
  IF lines = <<>> THEN <<>> ELSE Head(lines) \o <<NL>> \o JoinLines(Tail(lines))

\* The files of up to max lines, the last one with or without its newline.
BookmarkFiles(max) ==
  LET texts == UNION { [1..n -> BookmarkLines] : n \in 0..max }
      whole == { JoinLines(t) : t \in texts }
  IN  whole \cup { SubSeq(f, 1, Len(f) - 1) : f \in whole \ {<<>>} }

RECURSIVE Split(_)
\* BufReader::split(b'\n'): the segments between newlines; what follows the last
\* newline is a segment only if it is not empty.
Split(bytes) ==
  IF bytes = <<>> THEN <<>>
  ELSE IF \A i \in 1..Len(bytes) : bytes[i] # NL THEN <<bytes>>
  ELSE LET n == CHOOSE i \in 1..Len(bytes) :
                  bytes[i] = NL /\ \A j \in 1..(i - 1) : bytes[j] # NL
       IN  <<SubSeq(bytes, 1, n - 1)>> \o Split(SubSeq(bytes, n + 1, Len(bytes)))

\* String::from_utf8_lossy on the bytes used here: an ASCII byte is kept, the
\* byte 0xff becomes U+FFFD.
Lossy(bytes) == [i \in 1..Len(bytes) |-> IF bytes[i] < 128 THEN bytes[i] ELSE 65533]

InvalidBookmarkLine(text) == [ok |-> FALSE, kind |-> "InvalidBookmarkLine", text |-> text]
InvalidHash(text) == [ok |-> FALSE, kind |-> "InvalidHash", text |-> text]

\* A check that lets a line with an empty name through.
IsMalformedAllowsEmptyName(line) == Len(line) < MinLineLen - 1 \/ line[HashLen + 1] # SP

\* line.len() < 42 || line[40] != b' '
IsMalformed(line) == Len(line) < MinLineLen \/ line[HashLen + 1] # SP

\* A name that starts at the separator.
NameOfWithSeparator(line) == SubSeq(line, HashLen + 1, Len(line))

\* &line[41..] and &line[..40]
NameOf(line) == SubSeq(line, HashLen + 2, Len(line))
HashSliceOf(line) == SubSeq(line, 1, HashLen)

\* AsciiStr::from_ascii succeeds on bytes below 128.
IsAscii(bytes) == \A i \in 1..Len(bytes) : bytes[i] < 128

\* The value of a hex digit, upper or lower case; -1 for any other byte.
HexVal(c) ==
  IF c \in 48..57 THEN c - 48
  ELSE IF c \in 97..102 THEN c - 87
  ELSE IF c \in 65..70 THEN c - 55
  ELSE -1

\* NodeHash::from_ascii_str: 40 hex digits decode to the 20 bytes of the hash.
IsNodeHashStr(h) == Len(h) = HashLen /\ \A i \in 1..Len(h) : HexVal(h[i]) >= 0
NodeHashFromAscii(h) ==
  [i \in 1..(HashLen \div 2) |-> 16 * HexVal(h[2 * i - 1]) + HexVal(h[2 * i])]

\* An error that carries the bytes of the field as they are.
HashErrorRaw(hash_slice) == InvalidHash(hash_slice)

\* .context(ErrorKind::InvalidHash(String::from_utf8_lossy(hash_slice).into_owned()))
HashError(hash_slice) == InvalidHash(Lossy(hash_slice))

\* The body of the loop of from_reader for one line: an error, or the name and
\* the hash to insert.
ParseLine(line) ==
  IF IsMalformed(line) THEN InvalidBookmarkLine(Lossy(line))
  ELSE LET bmname == NameOf(line)
           hash_slice == HashSliceOf(line)
       IN  IF ~IsAscii(hash_slice) THEN HashError(hash_slice)
           ELSE IF ~IsNodeHashStr(hash_slice) THEN HashError(hash_slice)
           ELSE [ok |-> TRUE, name |-> bmname, hash |-> NodeHashFromAscii(hash_slice)]

\* An insert that keeps the hash a name already has.
InsertKeepsFirst(map, name, hash) ==
  [n \in DOMAIN map \cup {name} |-> IF n \in DOMAIN map THEN map[n] ELSE hash]

\* HashMap::insert replaces the value of a key that is there.
Insert(map, name, hash) ==
  [n \in DOMAIN map \cup {name} |-> IF n = name THEN hash ELSE map[n]]

EmptyMap == [n \in {} |-> <<>>]
StockBookmarks(map) == [ok |-> TRUE, bookmarks |-> map]

RECURSIVE FromLines(_, _)
\* The loop of from_reader: the first line that fails ends it.
FromLines(lines, map) ==
  IF lines = <<>> THEN StockBookmarks(map)
  ELSE LET r == ParseLine(Head(lines))
       IN  IF ~r.ok THEN r
           ELSE FromLines(Tail(lines), Insert(map, r.name, r.hash))

\* StockBookmarks::from_reader
FromReader(bytes) == FromLines(Split(bytes), EmptyMap)

\* Bookmarks::get: the hash with Version::from(1), or None.
BookmarksGet(map, name) ==
  IF name \in DOMAIN map THEN Some(<<map[name], StockVersion>>) ELSE None

\* The orders in which a HashMap may yield its keys.
Orderings(S) ==
  { o \in [1..Cardinality(S) -> S] : \A n \in S : \E i \in DOMAIN o : o[i] = n }

\* StockBookmarks::read: a file that is not there is an empty set of bookmarks;
\* a file that cannot be opened for another reason is an error.
Read ==
  /\ bookmarks = Nil
  /\ \/ bookmarks' = (IF file = None THEN StockBookmarks(EmptyMap) ELSE FromReader(file[1]))
     \/ /\ file # None
        /\ bookmarks' = Err("io", 0)
  /\ UNCHANGED <<file, last_call, added, pipevars, max_blob_size, store>>

ProbeNames == {Abc, Def, Abcdef}

BmGet(name) ==
  /\ bookmarks # Nil /\ bookmarks.ok
  /\ last_call' = [op |-> "get", name |-> name,
                   res |-> BookmarksGet(bookmarks.bookmarks, name)]
  /\ UNCHANGED <<bmvars, added, pipevars, max_blob_size, store>>

BmKeys ==
  /\ bookmarks # Nil /\ bookmarks.ok
  /\ \E o \in Orderings(DOMAIN bookmarks.bookmarks) :
       last_call' = [op |-> "keys", res |-> o]
  /\ UNCHANGED <<bmvars, added, pipevars, max_blob_size, store>>

InitBookmarks ==
  /\ blobtype = "Files" /\ postpone_compaction = FALSE /\ channel_size = 1
  /\ max_blob_size = None
  /\ InitRun
  /\ last_call = Nil /\ added = {} /\ earlier = <<>>
  /\ file \in {None} \cup {Some(f) : f \in BookmarkFiles(MaxLines)}
  /\ bookmarks = Nil
  /\ budget = 0
  /\ script = [p \in Producers |-> <<>>]

NextBookmarks ==
  \/ Read
  \/ \E name \in ProbeNames : BmGet(name)
  \/ BmKeys

SpecBookmarks == InitBookmarks /\ [][NextBookmarks]_vars

(* ============================== claims ================================ *)
\* The entries dequeued so far, in the order of their recv().
Dequeued == [i \in 1..Len(fut) |-> fut[i].item]
IsManifest(i) == fut[i].item.type = "ManifestEntry"
Manifests == {i \in 1..Len(fut) : IsManifest(i)}
\* The dequeued entries for which blobstore.put was called by the map closure.
ManifestPuts == {i \in Manifests : fut[i].put}
FirstWithKey(i) == \A j \in Manifests : j < i => fut[j].item.key # fut[i].item.key
\* The writes handed to the backend that have not completed.
InFlight == {i \in 1..Len(fut) : fut[i].st = "pending"}

\* C1. Dedup: of the dequeued manifest/file entries, exactly the first one with
\* each key has a put issued for it on the blobstore; every later entry with
\* that key has no put and is counted once in `duplicates`; so the puts of
\* manifest/file blobs plus the duplicates are the manifest/file entries dequeued.
C1_Dedup ==
  /\ \A i \in Manifests :
       /\ fut[i].put <=> FirstWithKey(i)
       /\ fut[i].dup <=> ~fut[i].put
  /\ \A k \in {fut[i].item.key : i \in Manifests} :
       Cardinality({i \in ManifestPuts : fut[i].item.key = k}) = 1
  /\ duplicates = Cardinality({i \in Manifests : fut[i].dup})
  /\ Cardinality(ManifestPuts) + duplicates = Cardinality(Manifests)

\* A run in which the iothread has finished without error after skipping a
\* manifest entry with an already inserted key and writing another key.
C1_Witness ==
  /\ io_res = Ok
  /\ duplicates = 1
  /\ Cardinality(ManifestPuts) = 2

\* C2. Backpressure: the channel never buffers more than channel_size entries; a
\* producer with an entry in hand cannot send while channel_size entries are
\* buffered; and while the iothread has not stopped on an error, what was sent
\* is exactly what was dequeued followed by what is buffered, in that order.
C2_Backpressure ==
  /\ Len(chan) <= channel_size
  /\ \A p \in Producers :
       (pending[p] # Nil /\ Len(chan) >= channel_size) => ~ENABLED Send(p)
  /\ ~IsErr(io_res) => sent = Dequeued \o chan
  /\ io_res = Ok => sent = Dequeued

\* A producer is blocked on a full channel after the iothread has dequeued entries.
C2_Witness ==
  /\ channel_size >= 1
  /\ Len(chan) = channel_size
  /\ Len(fut) >= 1
  /\ recv_open
  /\ \E p \in Producers : pending[p] # Nil

\* C7. Bounded concurrency: at most channel_size writes dispatched by the
\* iothread have not completed.
C7_BoundedConcurrency == Cardinality(InFlight) <= channel_size

\* channel_size writes are in flight at once.
C7_Witness ==
  /\ channel_size = 2
  /\ Cardinality(InFlight) = channel_size

\* --postpone-compaction was given with --blobstore rocksdb.
CompactionDue == blobtype = "Rocksdb" /\ postpone_compaction

\* run_blobimport has come to its last line: both stages have finished.
Joined == res # Nil /\ main_pc \in {"returned", "run_ok", "exited"}
\* The writes that failed in the backend, and the results the stage has seen.
FailedWrites == {n \in 1..Len(completed) : fut[completed[n]].st = "err"}
FirstFailedWrite ==
  completed[CHOOSE n \in FailedWrites : \A m \in FailedWrites : n <= m]

\* C4 as stated. Pipeline result: when both stages have finished, the result of
\* run_blobimport is the first error either stage observed, in order of
\* occurrence, and success only if neither observed one.
C4_FirstErrorOfEitherStage ==
  Joined => result = (IF errlog = <<>> THEN Ok ELSE Head(errlog))

\* C4 as amended. When both stages have finished, the result of run_blobimport
\* is the iothread's error if the iothread failed, whichever stage failed first,
\* and the converter's result otherwise; it is success only if neither stage
\* observed an error.
C4_ConsumerErrorFirst ==
  Joined =>
    /\ IsErr(io_res) => result = io_res
    /\ ~IsErr(io_res) => result = res
    /\ result = Ok <=> errlog = <<>>

\* The converter failed first, a write failed after it, and run_blobimport
\* returned the write's error.
C4_Witness ==
  /\ Joined
  /\ Len(errlog) = 2
  /\ errlog[1].kind = "convert"
  /\ errlog[2].kind = "put"
  /\ result = errlog[2]

\* C5 as stated. Consumer failure: the stage's result is the error of the write
\* that failed first, in the order in which the writes completed.
C5_FirstErrorInCompletionOrder ==
  (io_pc = "done" /\ IsErr(io_res) /\ io_res.kind = "put") =>
     io_res.id = FirstFailedWrite

\* What the stage has seen when it ends with a write's error: that error is the
\* last result it observed, the only failure it counted, and every result
\* observed before it was a success.
C5_ObservedFirst ==
  (IsErr(io_res) /\ io_res.kind = "put") =>
     /\ io_pc = "done"
     /\ observed # <<>>
     /\ io_res.id = observed[Len(observed)]
     /\ fut[io_res.id].st = "err"
     /\ \A n \in 1..(Len(observed) - 1) : fut[observed[n]].st = "ok"
     /\ failures = 1

\* Once the stage has an error, it dequeues nothing, dispatches nothing and
\* keeps that error.
C5_StopsAfterError ==
  IsErr(io_res) => /\ Len(fut') = Len(fut)
                   /\ io_res' = io_res
                   /\ observed' = observed
                   /\ [i \in 1..Len(fut) |-> fut'[i].item] = Dequeued

\* C5 as amended. The stage's result is the first write error the stage
\* observes, in the order in which buffer_unordered yields the results (which
\* need not be the order in which the writes failed); once it is observed the
\* stage dequeues no further entry, issues no new write and returns that error.
C5_FirstObservedError == []C5_ObservedFirst /\ [][C5_StopsAfterError]_vars

\* The stage ended with the error of a write although another write had failed
\* before it, and entries were left undequeued.
C5_Witness ==
  /\ io_pc = "done"
  /\ IsErr(io_res) /\ io_res.kind = "put"
  /\ Cardinality(FailedWrites) = 2
  /\ io_res.id # FirstFailedWrite
  /\ Len(sent) > Len(fut)

\* C10 as stated. Exit behaviour: the process exits with code 0 when the import
\* succeeded, and with a logged error and code 1 on any fatal error of the run.
C10_ExitZeroOrOne ==
  main_pc = "exited" =>
    /\ result = Ok => exit_code = Some(0)
    /\ IsErr(result) => (logged /\ exit_code = Some(1))
    /\ exit_code \in {Some(0), Some(1)}

\* C10 as amended. The process exits with code 0 when run returns Ok, that is
\* when the import succeeded and the compaction pass, if it runs, could reopen
\* the database; every error that run_blobimport returns is logged and exits
\* with code 1; a compaction pass that cannot reopen the database panics
\* instead, which ends the process with code 101 and is not logged by main.
C10_ExitCodes ==
  main_pc = "exited" =>
    /\ (result = Ok /\ (compacted \/ ~CompactionDue)) => (exit_code = Some(0) /\ ~logged)
    /\ IsErr(result) => (logged /\ exit_code = Some(1) /\ ~compacted)
    /\ (result = Ok /\ CompactionDue /\ ~compacted) => (exit_code = Some(101) /\ ~logged)
    /\ compacted => CompactionDue

\* An import that succeeded and whose compaction pass panicked.
C10_Witness ==
  /\ main_pc = "exited"
  /\ result = Ok
  /\ exit_code = Some(101)
  /\ successes >= 1

\* C6 as stated. Termination: for any configured channel capacity, once the
\* converter has finished and the sender is closed, the iothread terminates and
\* run_blobimport returns, having dequeued and processed every entry that was
\* sent if it did not stop on an error.
C6_Terminates ==
  (main_pc = "join") ~>
     (main_pc # "join" /\ io_pc = "done" /\ (io_res = Ok => Len(fut) = Len(sent)))

\* With a capacity of at least 1 the same holds: the hang is that of capacity 0.
C6_TerminatesPositive ==
  (channel_size >= 1 /\ main_pc = "join") ~>
     (main_pc # "join" /\ io_pc = "done" /\ (io_res = Ok => Len(fut) = Len(sent)))

\* The keys that hold a blob in the backend, and the writes that reached it.
Stored == {k \in Keys : StoreGet(store, k) # None}
Written == {i \in 1..Len(fut) : fut[i].fwd /\ fut[i].st = "ok"}

\* C9. End-to-end: when the iothread has processed, without an error, all the
\* entries of two changesets that share the manifest blob m and introduce the
\* file blobs f1 and f2, on a file-backed store with no size limit, the store
\* holds exactly the 2 changeset blobs and the 3 content blobs, each written
\* once, and the duplicate counter is 1, whatever the interleaving was.
C9_EndToEnd ==
  (io_res = Ok /\ Len(fut) = Len(History[1]) + Len(History[2])) =>
     /\ Stored = {"cs1", "cs2", "m", "f1", "f2"}
     /\ \A k \in Stored : StoreGet(store, k) = Some(<<0>>)
     /\ Cardinality({i \in Written : ~IsManifest(i)}) = 2
     /\ Cardinality({i \in Written : IsManifest(i)}) = 3
     /\ {fut[i].item.key : i \in Written} = Stored
     /\ duplicates = 1
     /\ successes = 6 /\ failures = 0

\* Such a run, in which the two workers' entries were interleaved and a write
\* dispatched later was observed before an earlier one.
C9_Witness ==
  /\ io_res = Ok
  /\ Len(fut) = 6
  /\ fut[1].item.key = "cs2" /\ fut[2].item.key = "cs1"
  /\ \E n \in 1..5 : observed[n] > observed[n + 1]

IsCall(op) == last_call # Nil /\ last_call.op = op
\* The last call was a get that directly followed a put of the same key on a
\* handle with a size limit.
GetAfterPut ==
  /\ IsCall("get")
  /\ last_call.after # Nil /\ last_call.after.op = "put"
  /\ last_call.after.key = last_call.key
  /\ max_blob_size # None

C8_NoopLinknodes ==
  /\ IsCall("add") => last_call.res = Ok
  /\ IsCall("get") =>
       last_call.res = [ok |-> FALSE, kind |-> "NotFound",
                        path |-> last_call.path, node |-> last_call.node]

\* A get for a path and node that were added twice, with two linknodes.
C8_Witness ==
  /\ IsCall("get")
  /\ <<last_call.path, last_call.node, "n1">> \in added
  /\ <<last_call.path, last_call.node, "n2">> \in added

\* The dequeued changesets.
Changesets == {i \in 1..Len(fut) : fut[i].item.type = "Changeset"}

\* A save through the blobstore was attempted for every dequeued changeset, and
\* none was filtered.
C14_SaveAttempted == \A i \in Changesets : fut[i].put /\ ~fut[i].dup

\* The step that dequeues a changeset leaves the seen-key set and the duplicate
\* counter as they were.
C14_LeavesFilterAlone ==
  (Len(fut') = Len(fut) + 1 /\ fut'[Len(fut')].item.type = "Changeset") =>
     /\ inserted_manifest_entries' = inserted_manifest_entries
     /\ duplicates' = duplicates

\* C14. Changesets are never deduplicated: for every changeset the iothread
\* dequeues, a save through the blobstore is attempted, also when an identical
\* changeset was dequeued before or a manifest entry with the same key was
\* seen; dequeuing a changeset changes neither the seen-key set nor the
\* duplicate counter, which counts filtered manifest entries only.
C14_NeverDeduplicated ==
  /\ [](C14_SaveAttempted /\ duplicates = Cardinality({i \in Manifests : fut[i].dup}))
  /\ [][C14_LeavesFilterAlone]_vars

\* A manifest entry with the key k1 was dequeued, then two identical changesets
\* whose blob has that key, and a save was attempted for both.
C14_Witness ==
  /\ Len(fut) = 3
  /\ IsManifest(1) /\ fut[1].item.key = "k1"
  /\ fut[2].item = Changeset("k1", <<0, 0>>) /\ fut[3].item = fut[2].item
  /\ fut[2].put /\ fut[3].put
  /\ inserted_manifest_entries = {"k1"}
  /\ duplicates = 0

\* The results the stage has been handed, by outcome.
ObservedOk == {n \in 1..Len(observed) : fut[observed[n]].st = "ok"}
ObservedErr == {n \in 1..Len(observed) : fut[observed[n]].st = "err"}

\* Every result the stage was handed is counted, under its outcome, and none
\* is handed to it twice.
C15_Counted ==
  /\ successes = Cardinality(ObservedOk)
  /\ failures = Cardinality(ObservedErr)
  /\ successes + failures = Len(observed)
  /\ \A n, m \in 1..Len(observed) : observed[n] = observed[m] => n = m
  /\ \A n \in 1..Len(observed) : fut[observed[n]].st # "pending"

\* A step in which the stage is handed the result of a write adds one to
\* `successes` if the write succeeded and one to `failures` if it failed, and
\* leaves the other counter; every other step leaves both.
C15_OneCounterByOne ==
  IF observed' # observed
    THEN LET i == observed'[Len(observed')]
         IN  /\ observed' = Append(observed, i)
             /\ fut[i].st = "ok" => (successes' = successes + 1 /\ failures' = failures)
             /\ fut[i].st = "err" => (failures' = failures + 1 /\ successes' = successes)
    ELSE successes' = successes /\ failures' = failures

\* C15. Outcome accounting: each completed write whose result the stage
\* observes adds one to exactly one counter, `successes` if it succeeded and
\* `failures` if it failed; no result is counted twice and none that was
\* observed is left uncounted.
C15_OutcomeAccounting == []C15_Counted /\ [][C15_OneCounterByOne]_vars

\* Two writes that reached the backend were observed, one that succeeded and
\* one that failed.
C15_Witness ==
  /\ successes = 1 /\ failures = 1
  /\ \A n \in 1..Len(observed) : fut[observed[n]].fwd
  /\ Len(observed) = 2

\* Entries with the same key carry the same payload.
KeysDeterminePayloads ==
  \A i, j \in 1..Len(fut) :
    fut[i].item.key = fut[j].item.key => fut[i].item.val = fut[j].item.val
\* What the dequeued entries, in their order, make of an empty store and of the
\* duplicate counter, whatever the order in which the writes complete.
ExpectedStore ==
  [k \in Keys |->
     IF \E i \in 1..Len(fut) :
          /\ fut[i].item.key = k
          /\ (max_blob_size = None \/ Len(fut[i].item.val) < max_blob_size[1])
       THEN Some((CHOOSE it \in {fut[i].item : i \in 1..Len(fut)} : it.key = k).val)
       ELSE None]
ExpectedDuplicates ==
  Cardinality({i \in Manifests : \E j \in Manifests : j < i /\ fut[j].item.key = fut[i].item.key})

\* C16. Completion-order independence: when the iothread has processed all it
\* dequeued without a failure, and entries with the same key carry the same
\* payload, the contents of the store and the duplicate counter are given by
\* the sequence of dequeued entries alone, whatever the order in which the
\* concurrently dispatched writes completed.
C16_OrderIndependent ==
  (io_res = Ok /\ KeysDeterminePayloads) =>
     /\ store = ExpectedStore
     /\ duplicates = ExpectedDuplicates

\* Two writes of different keys completed in the order opposite to their
\* dispatch, and the run ended without a failure.
C16_Witness ==
  /\ io_res = Ok /\ KeysDeterminePayloads
  /\ Len(completed) >= 2
  /\ completed[1] > completed[2]
  /\ Cardinality(Stored) >= 2

\* What one run over RerunItems that ends without a failure leaves in a store
\* that was empty: the payload of every key that has a payload below the limit.
RerunExpected ==
  [k \in Keys |->
     IF \E n \in 1..Len(RerunItems) :
          /\ RerunItems[n].key = k
          /\ (max_blob_size = None \/ Len(RerunItems[n].val) < max_blob_size[1])
       THEN Some(RerunItems[CHOOSE n \in 1..Len(RerunItems) : RerunItems[n].key = k].val)
       ELSE None]
\* The iothread of the present run has processed every entry without a failure.
RunComplete == io_res = Ok /\ Dequeued = RerunItems

\* C17. Re-run idempotence: a run over the item sequence that ends without a
\* failure leaves the same store whether it started on an empty store, on the
\* store an earlier complete run left, or on the store left by an earlier run
\* that stopped at an error: the one a single successful run on an empty store
\* produces.
C17_RerunIdempotent ==
  /\ (earlier = <<>> /\ RunComplete) => store = RerunExpected
  /\ (earlier # <<>> /\ RunComplete) => store = RerunExpected

\* The first run stopped at the error of a write and left some but not all of
\* the blobs; the second run has ended without a failure.
C17_Witness ==
  /\ Len(earlier) = 1
  /\ IsErr(earlier[1].io_res) /\ earlier[1].io_res.kind = "put"
  /\ earlier[1].store # RerunExpected
  /\ \E k \in Keys : earlier[1].store[k] # None
  /\ RunComplete
  /\ store = RerunExpected
  /\ duplicates = 1

StoppedAtWrite == IsErr(io_res) /\ io_res.kind = "put"

\* C20 as stated. Backend error context: the failure of a put or save issued by
\* the iothread reaches the caller of run_blobimport wrapped with a context
\* that names the operation.
C20_PutErrorHasContext ==
  (Joined /\ StoppedAtWrite) => HasContext(result)

\* C20 as amended. The failure of a put or save at which the iothread stops
\* reaches the caller of run_blobimport as the error that write's future
\* yielded, with no context added by the iothread or by run_blobimport; only the
\* failure to open the file or rocksdb blobstore is wrapped with a context
\* that names the operation.
C20_PutErrorUnchanged ==
  Joined =>
    /\ StoppedAtWrite =>
         /\ fut[io_res.id].st = "err"
         /\ result = Err("put", io_res.id)
         /\ ~HasContext(result)
    /\ (IsErr(io_res) /\ io_res.kind = "open_blobstore") =>
         /\ result = io_res
         /\ HasContext(result)
         /\ result.context = "Failed to open blob store"

\* run_blobimport has returned the bare error of the put of a manifest entry,
\* the converter having ended without one of its own.
C20_Witness ==
  /\ Joined /\ StoppedAtWrite
  /\ IsManifest(io_res.id)
  /\ result = Err("put", io_res.id)
  /\ IsErr(res) /\ res.kind = "send"

\* The pipeline is at rest: the converter has returned, the iothread has
\* returned, and run_blobimport has returned.
ImportCompleted ==
  /\ res # Nil /\ io_pc = "done" /\ ~sender_open /\ ~recv_open /\ queue = {}
  /\ main_pc \in {"returned", "run_ok", "exited"}

\* C21 as stated. Compaction ordering: the compaction pass runs whenever
\* --postpone-compaction was given with the rocksdb backend, only after the
\* import has completed, and for no other backend and not without the flag.
C21_RunsWheneverPostponed ==
  /\ compacted => (CompactionDue /\ ImportCompleted)
  /\ (main_pc = "exited" /\ CompactionDue) => compacted

\* C21 as amended. The compaction pass runs only when --postpone-compaction was
\* given with the rocksdb backend and run_blobimport has returned Ok, that is
\* after the converter and the iothread have both completed without an error;
\* it never runs while the pipeline is running, for another backend, without
\* the flag, or after an import that failed; a process that ends with code 0
\* in that configuration has run it, and one that ends without having run it
\* after a successful import has panicked on reopening the database.
C21_CompactionAfterImport ==
  /\ compacted => /\ CompactionDue
                  /\ ImportCompleted
                  /\ result = Ok /\ res = Ok /\ io_res = Ok
  /\ (main_pc = "exited" /\ CompactionDue) =>
       /\ exit_code = Some(0) => compacted
       /\ IsErr(result) => ~compacted
       /\ (result = Ok /\ ~compacted) => exit_code = Some(101)
  /\ main_pc = "run_ok" => compacted

\* The compaction pass has run after an import that wrote blobs, and the
\* process has ended with code 0.
C21_Witness ==
  /\ compacted
  /\ main_pc = "exited" /\ exit_code = Some(0)
  /\ Cardinality(Stored) >= 2

\* A worker is blocked in send: it holds an item and its send neither goes
\* through nor is refused.
Blocked(p) ==
  /\ main_pc = "convert"
  /\ pending[p] # Nil
  /\ ~ENABLED Send(p)
  /\ ~ENABLED SendFail(p)

\* A deadlock of producer and consumer: a worker is blocked in send, and
\* neither the iothread nor the backend can take a step, so the channel never
\* gets room and the receiver is never dropped.
ProducerConsumerDeadlock ==
  /\ \E p \in Producers : Blocked(p)
  /\ ~ENABLED IoStep
  /\ ~ENABLED BackendStep

\* When the iothread has ended, every send of a worker is refused at once.
DeadConsumerRefusesSends ==
  (io_pc = "done" /\ main_pc = "convert") =>
    /\ ~recv_open
    /\ \A p \in Producers :
         pending[p] # Nil => (ENABLED SendFail(p) /\ ~ENABLED Send(p))

\* C22 as stated. No producer is blocked forever by a dead consumer: when the
\* iothread ends early the receiver is dropped, so every blocked or later send
\* is refused instead of blocking, and no reachable state is a deadlock of
\* producer and consumer.
C22_NoProducerBlockedForever ==
  /\ DeadConsumerRefusesSends
  /\ ~ProducerConsumerDeadlock

\* With a capacity of at least 1 the same holds: the deadlock is that of
\* capacity 0.
C22_NoDeadlockPositive ==
  channel_size >= 1 => (DeadConsumerRefusesSends /\ ~ProducerConsumerDeadlock)

\* A run whose iothread ended with an error while the converter was running
\* reaches the join and returns (FairSpecConv).
C22_DeadConsumerReturns ==
  (io_pc = "done" /\ IsErr(io_res) /\ main_pc = "convert") ~> Joined

\* The iothread has ended with a write error while a worker holds an item.
C22_DeadConsumerCase ==
  /\ io_pc = "done" /\ IsErr(io_res) /\ io_res.kind # "open_blobstore"
  /\ main_pc = "convert"
  /\ \E p \in Producers : pending[p] # Nil

\* The dequeued changesets whose serialized form the size limit covers.
OversizedChangesets ==
  {i \in Changesets :
     max_blob_size # None /\ Len(fut[i].item.val) >= max_blob_size[1]}

PutsIssued == {i \in 1..Len(fut) : fut[i].put}
ObservedDuplicates == {n \in 1..Len(observed) : fut[observed[n]].dup}

\* C24. The success counter includes skipped duplicates: a manifest/file entry
\* whose key was already seen has no put issued, is counted in duplicates, and
\* its result is counted in successes like that of a write that succeeded; so
\* when the iothread ends without an error, successes is the number of entries
\* dequeued, failures is 0, and the puts issued are successes - duplicates
\* (all of which reach the inner store when no size limit is set).
C24_SuccessesIncludeDuplicates ==
  /\ \A i \in 1..Len(fut) :
       fut[i].dup => (IsManifest(i) /\ ~fut[i].put /\ ~fut[i].fwd /\ fut[i].st = "ok")
  /\ duplicates = Cardinality({i \in 1..Len(fut) : fut[i].dup})
  /\ ObservedDuplicates \subseteq ObservedOk
  /\ successes =
       Cardinality(ObservedDuplicates) + Cardinality(ObservedOk \ ObservedDuplicates)
  /\ io_res = Ok =>
       /\ successes = Len(fut)
       /\ failures = 0
       /\ Cardinality(PutsIssued) = successes - duplicates
       /\ max_blob_size = None =>
            Cardinality({i \in 1..Len(fut) : fut[i].fwd}) = successes - duplicates

\* The iothread has ended without an error after skipping a duplicate: the
\* duplicate is in successes, which exceeds the puts issued.
C24_Witness ==
  /\ io_res = Ok
  /\ duplicates >= 1
  /\ successes = Len(fut) /\ successes >= 2
  /\ Cardinality(PutsIssued) = successes - duplicates

\* The entries handed to the channel whose processing has not completed: those
\* buffered in the channel and those dequeued whose future is still queued.
Outstanding == Len(chan) + Cardinality(queue)

\* C25. Bound on outstanding items: with channel capacity C, at most C entries
\* are buffered in the channel and at most C dequeued entries are in flight,
\* so at most 2*C entries handed to the channel are not yet processed; while
\* the iothread runs these are the entries sent and not yet counted; the
\* iothread dequeues whenever an entry is buffered and fewer than C futures
\* are queued, whether or not any write has completed; and when a worker is
\* blocked in send with the iothread at a standstill, 2*C entries are
\* outstanding.
C25_OutstandingBound ==
  /\ Len(chan) <= channel_size
  /\ Cardinality(queue) <= channel_size
  /\ InFlight \subseteq queue \/ io_pc = "done"
  /\ Outstanding <= 2 * channel_size
  /\ io_pc # "done" => Len(sent) - Len(observed) = Outstanding
  /\ (Alive /\ io_pc = "run" /\ chan # <<>> /\ Cardinality(queue) < channel_size)
       => ENABLED Recv
  /\ \A p \in Producers :
       (Blocked(p) /\ io_pc = "run" /\ ~ENABLED IoStep)
         => (Outstanding = 2 * channel_size /\ queue \subseteq InFlight)

\* No write has completed, 2*C entries were sent and all are outstanding, C of
\* them as writes in flight, and a worker is blocked in send.
C25_Witness ==
  /\ channel_size >= 1
  /\ completed = <<>>
  /\ Outstanding = 2 * channel_size
  /\ Len(sent) = 2 * channel_size
  /\ queue \subseteq InFlight
  /\ \E p \in Producers : Blocked(p)

\* The lines of the bookmarks file, and what was read from it.
FileLines == IF file = None THEN <<>> ELSE Split(file[1])
\* StockBookmarks::read has returned, and not with an error of File::open.
WasRead == bookmarks # Nil /\ bookmarks # Err("io", 0)
Loaded == bookmarks # Nil /\ bookmarks.ok
HexDigits == (48..57) \cup (65..70) \cup (97..102)
\* <40 hex digits><space><name of at least one byte>
WellFormedLine(l) ==
  /\ Len(l) >= 42
  /\ l[41] = 32
  /\ \A k \in 1..40 : l[k] \in HexDigits
WellFormedUpTo(n) == \A j \in 1..n : WellFormedLine(FileLines[j])
WellFormedFile == WellFormedUpTo(Len(FileLines))
LineName(i) == SubSeq(FileLines[i], 42, Len(FileLines[i]))
LineHash(i) == NodeHashFromAscii(SubSeq(FileLines[i], 1, 40))
NamesInFile == {LineName(i) : i \in 1..Len(FileLines)}
LinesNamed(name) == {i \in 1..Len(FileLines) : LineName(i) = name}
LastLineNamed(name) == CHOOSE i \in LinesNamed(name) : \A j \in LinesNamed(name) : j <= i

\* C11 as stated. Bookmark parsing: for a well-formed file, every (name, hash)
\* pair of the file is what get(name) returns, with version 1; get of a name
\* that is not in the file returns absent; keys() yields exactly the distinct
\* names of the file.
C11_EveryPairRetrievable ==
  (Loaded /\ WellFormedFile) =>
    /\ IsCall("get") =>
         /\ \A i \in LinesNamed(last_call.name) :
              last_call.res = Some(<<LineHash(i), 1>>)
         /\ last_call.name \notin NamesInFile => last_call.res = None
    /\ IsCall("keys") =>
         /\ {last_call.res[i] : i \in DOMAIN last_call.res} = NamesInFile
         /\ Len(last_call.res) = Cardinality(NamesInFile)

\* C11 as amended. For a well-formed file, every (name, hash) pair of the file
\* whose name does not occur again on a later line is what get(name) returns,
\* with version 1; get of a name that is not in the file returns absent; keys()
\* yields exactly the distinct names of the file, in some order.
C11_Lookup ==
  (Loaded /\ WellFormedFile) =>
    /\ IsCall("get") =>
         /\ \A i \in LinesNamed(last_call.name) :
              (\A j \in LinesNamed(last_call.name) : j <= i) =>
                 last_call.res = Some(<<LineHash(i), 1>>)
         /\ last_call.name \notin NamesInFile => last_call.res = None
    /\ IsCall("keys") =>
         /\ {last_call.res[i] : i \in DOMAIN last_call.res} = NamesInFile
         /\ Len(last_call.res) = Cardinality(NamesInFile)

\* A file of three lines with two names was read, and get returned the hash
\* that was written in upper case hex digits.
C11_Witness ==
  /\ Loaded /\ WellFormedFile
  /\ Len(FileLines) = 3
  /\ Cardinality(NamesInFile) = 2
  /\ IsCall("get")
  /\ last_call.res = Some(<<Fill(170, 20), 1>>)
  /\ SubSeq(FileLines[LastLineNamed(last_call.name)], 1, 40) = UpperAs

\* C12. Malformed line: the first line of the file that is not accepted, if it
\* is shorter than 42 bytes or its 41st byte is not a space, makes from_reader
\* fail with InvalidBookmarkLine, whatever its first 40 bytes are.
C12_MalformedLine ==
  WasRead =>
    \A i \in 1..Len(FileLines) :
      (WellFormedUpTo(i - 1) /\ (Len(FileLines[i]) < 42 \/ FileLines[i][41] # 32)) =>
         (~bookmarks.ok /\ bookmarks.kind = "InvalidBookmarkLine")

\* A file whose second line has a letter that is no hex digit in its hash field
\* and no space after it was rejected as a malformed line.
C12_Witness ==
  /\ WasRead
  /\ Len(FileLines) >= 2
  /\ WellFormedLine(FileLines[1])
  /\ Len(FileLines[2]) = 42 /\ FileLines[2][41] # 32
  /\ \E k \in 1..40 : FileLines[2][k] \notin HexDigits
  /\ ~bookmarks.ok /\ bookmarks.kind = "InvalidBookmarkLine"

\* C13. Invalid hash: the first line of the file that is not well-formed, if it
\* has at least 42 bytes and a space as its 41st, makes from_reader fail with
\* InvalidHash, carrying the lossily decoded first 40 bytes, and it is such a
\* line exactly when these 40 bytes hold a non-ASCII byte or a byte that is no
\* hex digit; a file whose lines all have 42 bytes or more, a space as the 41st
\* and 40 hex digits before it is accepted.
C13_InvalidHash ==
  WasRead =>
    /\ \A i \in 1..Len(FileLines) :
         LET l == FileLines[i]
             h == SubSeq(l, 1, 40)
             bad == (\E k \in 1..40 : h[k] >= 128) \/ (\E k \in 1..40 : h[k] \notin HexDigits)
         IN  (WellFormedUpTo(i - 1) /\ Len(l) >= 42 /\ l[41] = 32) =>
               /\ bad <=> ~WellFormedLine(l)
               /\ bad => bookmarks = [ok |-> FALSE, kind |-> "InvalidHash",
                                      text |-> [k \in 1..40 |->
                                                  IF h[k] < 128 THEN h[k] ELSE 65533]]
               /\ (~bad /\ i = Len(FileLines)) =>
                    (bookmarks.ok /\ LineName(i) \in DOMAIN bookmarks.bookmarks)
    /\ bookmarks.ok <=> WellFormedFile

\* A file whose second line has the byte 0xff in its hash field was rejected
\* with InvalidHash, the byte replaced in the text of the error.
C13_Witness ==
  /\ WasRead
  /\ Len(FileLines) >= 2
  /\ WellFormedLine(FileLines[1])
  /\ Len(FileLines[2]) >= 42 /\ FileLines[2][41] = 32
  /\ FileLines[2][40] = 255
  /\ ~bookmarks.ok /\ bookmarks.kind = "InvalidHash"
  /\ bookmarks.text[40] = 65533

\* C19. Last wins: when a name occurs on several lines of the file, get(name)
\* returns the hash of the last of them; a hash that is found comes with the
\* version 1; keys() yields each name once.
C19_LastWins ==
  Loaded =>
    /\ (IsCall("get") /\ Cardinality(LinesNamed(last_call.name)) >= 2) =>
         /\ last_call.res # None
         /\ last_call.res[1][1] = LineHash(LastLineNamed(last_call.name))
    /\ (IsCall("get") /\ last_call.res # None) => last_call.res[1][2] = 1
    /\ IsCall("keys") =>
         \A n \in NamesInFile :
           Cardinality({i \in DOMAIN last_call.res : last_call.res[i] = n}) = 1

\* The name abc is on the first two lines with two hashes, and get returned the
\* second one.
C19_Witness ==
  /\ Loaded
  /\ IsCall("get")
  /\ LinesNamed(last_call.name) = {1, 2}
  /\ LineHash(1) # LineHash(2)
  /\ last_call.res = Some(<<LineHash(2), 1>>)

====
